---- MODULE Spec2Model ----
(***************************************************************************)
(* State-machine model of start_node.py: the provisioning script that      *)
(* (re)initialises a gaiad home, reconciles config.toml / app.toml,        *)
(* resolves a state-sync trust anchor and launches the node.               *)
(*                                                                         *)
(* Python strings that the code takes apart (listen addresses) are         *)
(* sequences of one-character strings; opaque strings (seeds, backend      *)
(* names) are TLA+ strings.                                                *)
(***************************************************************************)
EXTENDS Integers, Sequences, FiniteSets, TLC

(***************************************************************************)
(* Bounds of the model                                                     *)
(***************************************************************************)
\* number of consecutive runs of the script against the same home
MaxRuns == 3

(***************************************************************************)
(* Module constants of start_node.py                                       *)
(***************************************************************************)
SUPPORTED_BACKENDS ==
    {"gemini", "geminicached", "treedb", "gomap", "goleveldb", "pebbledb", "memdb"}
MIN_GAS_PRICE == "0.005stake"
SEEDS == "seed-01:26656,seed-02:26656"
SYNC_RPC_SERVERS == <<"E1", "E2">>
\* "Use a height 2000 blocks back to be safe"
TRUST_MARGIN == 2000
TRUST_PERIOD == "168h"

(***************************************************************************)
(* Python string primitives used by increment_port                         *)
(***************************************************************************)
Digits == <<"0", "1", "2", "3", "4", "5", "6", "7", "8", "9">>

IsDigit(c) == \E i \in 1..10 : Digits[i] = c

DigitVal(c) == (CHOOSE i \in 1..10 : Digits[i] = c) - 1

\* str.strip() of the whitespace int() ignores around the number
RECURSIVE LStrip(_)
LStrip(s) == IF s # <<>> /\ Head(s) = " " THEN LStrip(Tail(s)) ELSE s

RECURSIVE RStrip(_)
RStrip(s) ==
    IF s # <<>> /\ s[Len(s)] = " " THEN RStrip(SubSeq(s, 1, Len(s) - 1)) ELSE s

\* the digit groups of an int() literal: digits, single underscores between digits
RECURSIVE DigitsOk(_, _)
DigitsOk(s, i) ==
    IF i > Len(s) THEN TRUE
    ELSE IF IsDigit(s[i]) THEN DigitsOk(s, i + 1)
    ELSE IF s[i] = "_"
         THEN /\ i > 1 /\ i < Len(s)
              /\ IsDigit(s[i - 1]) /\ IsDigit(s[i + 1])
              /\ DigitsOk(s, i + 1)
    ELSE FALSE

RECURSIVE DigitsVal(_, _)
DigitsVal(s, acc) ==
    IF s = <<>> THEN acc
    ELSE IF Head(s) = "_" THEN DigitsVal(Tail(s), acc)
    ELSE DigitsVal(Tail(s), 10 * acc + DigitVal(Head(s)))

\* int(text): [ok |-> FALSE] stands for the ValueError int() raises
PyInt(text) ==
    LET t == RStrip(LStrip(text))
        signed == t # <<>> /\ Head(t) \in {"+", "-"}
        body == IF signed THEN Tail(t) ELSE t
    IN  IF body # <<>> /\ DigitsOk(body, 1)
        THEN [ok |-> TRUE,
              val |-> IF signed /\ Head(t) = "-"
                      THEN 0 - DigitsVal(body, 0) ELSE DigitsVal(body, 0)]
        ELSE [ok |-> FALSE, val |-> 0]

\* str(n) for an integer, as the f-string formats it
RECURSIVE NatToStr(_)
NatToStr(n) ==
    IF n < 10 THEN <<Digits[n + 1]>>
    ELSE NatToStr(n \div 10) \o <<Digits[(n % 10) + 1]>>

IntToStr(n) == IF n < 0 THEN <<"-">> \o NatToStr(0 - n) ELSE NatToStr(n)

\* positions at which the separator "://" starts, scanning as str.split does
RECURSIVE SepPositions(_, _)
SepPositions(s, i) ==
    IF i + 2 > Len(s) THEN <<>>
    ELSE IF s[i] = ":" /\ s[i + 1] = "/" /\ s[i + 2] = "/"
         THEN <<i>> \o SepPositions(s, i + 3)
    ELSE SepPositions(s, i + 1)

\* index of the last ":" of s, 0 when there is none (str.rsplit(":", 1))
RECURSIVE LastColon(_, _)
LastColon(s, i) ==
    IF i = 0 THEN 0 ELSE IF s[i] = ":" THEN i ELSE LastColon(s, i - 1)

(***************************************************************************)
(* increment_port(addr, offset)                                            *)
(*   [raised |-> TRUE] is the ValueError of the two-name unpacking of      *)
(*   addr.split("://") , which is outside the try block.                   *)
(***************************************************************************)
\* faulty variant of increment_port: the scheme is dropped from the result
increment_port_no_prefix(addr, offset) ==
    IF addr = <<>> \/ offset = 0 THEN [raised |-> FALSE, value |-> addr]
    ELSE
    LET seps == SepPositions(addr, 1)
        hasSep == seps # <<>>
    IN  IF hasSep /\ Len(seps) # 1 THEN [raised |-> TRUE, value |-> addr]
        ELSE
        LET rest == IF hasSep THEN SubSeq(addr, seps[1] + 3, Len(addr)) ELSE addr
            k == LastColon(rest, Len(rest))
            host == SubSeq(rest, 1, k - 1)
            port == PyInt(SubSeq(rest, k + 1, Len(rest)))
        IN  IF k = 0 \/ ~port.ok
            THEN [raised |-> FALSE, value |-> addr]
            ELSE [raised |-> FALSE,
                  value |-> host \o <<":">> \o IntToStr(port.val + offset)]

increment_port(addr, offset) ==
    IF addr = <<>> \/ offset = 0 THEN [raised |-> FALSE, value |-> addr]
    ELSE
    LET seps == SepPositions(addr, 1)
        hasSep == seps # <<>>
    IN  IF hasSep /\ Len(seps) # 1 THEN [raised |-> TRUE, value |-> addr]
        ELSE
        LET prefix == IF hasSep THEN SubSeq(addr, 1, seps[1] + 2) ELSE <<>>
            rest == IF hasSep THEN SubSeq(addr, seps[1] + 3, Len(addr)) ELSE addr
            k == LastColon(rest, Len(rest))
            host == SubSeq(rest, 1, k - 1)
            port == PyInt(SubSeq(rest, k + 1, Len(rest)))
        IN  IF k = 0 \/ ~port.ok
            THEN [raised |-> FALSE, value |-> prefix \o rest]
            ELSE [raised |-> FALSE,
                  value |-> prefix \o host \o <<":">> \o IntToStr(port.val + offset)]

(***************************************************************************)
(* Files written by the external `gaiad init` (run_command at line 183).   *)
(* A file is [present, fmt, data]: fmt tells the commented layout gaiad    *)
(* writes from the bare layout toml.dump writes; data is what toml.load    *)
(* returns.                                                                *)
(***************************************************************************)
TCP == <<"t", "c", "p", ":", "/", "/">>
Localhost == <<"l", "o", "c", "a", "l", "h", "o", "s", "t">>
AnyHost == <<"0", ".", "0", ".", "0", ".", "0">>
Loopback == <<"1", "2", "7", ".", "0", ".", "0", ".", "1">>

\* value of Python's None
NoneVal == [none |-> TRUE]

NoFile == [present |-> FALSE, fmt |-> "none", data |-> NoneVal]

NoHome ==
    [exists |-> FALSE, config_dir |-> FALSE, config_toml |-> NoFile,
     app_toml |-> NoFile, marker |-> FALSE]

\* a section of app.toml: the table may be missing, and so may its address key
Section(addr) == [present |-> TRUE, has_address |-> TRUE, address |-> addr]
SectionNoAddress == [present |-> TRUE, has_address |-> FALSE, address |-> <<>>]

GaiadConfigToml(peers, rpc, pprof, p2p) ==
    [present |-> TRUE, fmt |-> "gaiad",
     data |-> [db_backend |-> "goleveldb",
               seeds |-> "",
               persistent_peers |-> peers,
               rpc_laddr |-> rpc,
               pprof_laddr |-> pprof,
               p2p_laddr |-> p2p,
               ss_enable |-> FALSE,
               ss_rpc_servers |-> <<>>,
               ss_trust_height |-> 0,
               ss_trust_hash |-> <<>>,
               ss_trust_period |-> "168h0m0s"]]

GaiadAppToml(api, grpc, grpcweb) ==
    [present |-> TRUE, fmt |-> "gaiad",
     data |-> [minimum_gas_prices |-> "",
               api |-> api, grpc |-> grpc, grpc_web |-> grpcweb]]

\* what `gaiad init` leaves in the home: the files and the validator-state marker
InitOutputs ==
    { [config_toml |-> GaiadConfigToml("",
                          TCP \o Loopback \o <<":", "2", "6", "6", "5", "7">>,
                          Localhost \o <<":", "6", "0", "6", "0">>,
                          TCP \o AnyHost \o <<":", "2", "6", "6", "5", "6">>),
       app_toml |-> GaiadAppToml(
                          Section(TCP \o AnyHost \o <<":", "1", "3", "1", "7">>),
                          Section(AnyHost \o <<":", "9", "0", "9", "0">>),
                          Section(AnyHost \o <<":", "9", "0", "9", "1">>)),
       marker |-> TRUE],
      [config_toml |-> GaiadConfigToml("peer0@10.0.0.1:26656",
                          TCP \o AnyHost \o <<":", "2", "6", "6", "5", "7">>,
                          Localhost \o <<":", "6", "0", "6", "0">>,
                          TCP \o AnyHost \o <<":", "2", "6", "6", "5", "6">>),
       app_toml |-> GaiadAppToml(
                          Section(TCP \o Localhost \o <<":", "1", "3", "1", "7">>),
                          Section(Localhost \o <<":", "9", "0", "9", "0">>),
                          SectionNoAddress),
       marker |-> FALSE] }

\* toml.load(path): the structured content of a file
toml_load(file) == file.data

\* toml.dump(data, f) on a file opened with 'w': the whole file is rewritten
toml_dump(data) == [present |-> TRUE, fmt |-> "toml.dump", data |-> data]

(***************************************************************************)
(* Operator inputs (argparse, lines 84-123)                                *)
(***************************************************************************)
Backends == {"memdb", "pebbledb"}

\* --port-offset as typed: <<>> when the flag is not given
PortOffsetFlags == {<<>>, <<0>>, <<1000>>}

\* argparse default=1000 of --port-offset
DEFAULT_PORT_OFFSET == 1000

\* faulty variant of port_offset_of: an offset of 0 is taken for a missing flag
port_offset_of_falsy(flag) ==
    IF flag = <<>> \/ flag[1] = 0 THEN DEFAULT_PORT_OFFSET ELSE flag[1]

port_offset_of(flag) == IF flag = <<>> THEN DEFAULT_PORT_OFFSET ELSE flag[1]

HaltHeights == {0, 100}

ArgSpace ==
    [backend : Backends,
     clean : BOOLEAN,
     state_sync_enable : BOOLEAN,
     state_sync_rpc_servers : {SYNC_RPC_SERVERS},
     port_offset_flag : PortOffsetFlags,
     disable_fastnode : BOOLEAN,
     halt_height : HaltHeights]

(***************************************************************************)
(* Remote trust endpoints: what a query may answer                         *)
(***************************************************************************)
LatestHeights == {1500, 2000, 50000}

StatusResponses ==
    {[kind |-> "neterr", height |-> 0], [kind |-> "malformed", height |-> 0]}
    \cup {[kind |-> "ok", height |-> h] : h \in LatestHeights}

\* the hash endpoint rpc serves for the block at height h
BlockHash(rpc, h) == <<rpc, h>>

\* a block answer carries the hash of the block asked for, or an empty hash
\* (a node that has pruned the block answers with an empty block id)
BlockResponses(rpc, h) ==
    {[kind |-> "neterr", hash |-> <<>>], [kind |-> "malformed", hash |-> <<>>],
     [kind |-> "ok", hash |-> <<>>], [kind |-> "ok", hash |-> BlockHash(rpc, h)]}

(***************************************************************************)
(* State                                                                   *)
(***************************************************************************)
VARIABLES
    runs,          \* number of runs of the script started so far
    pc,            \* position of the current run in main()
    args,          \* argparse namespace of the current run
    home,          \* the home directory on disk (survives the runs)
    config_data,   \* main(): config_data, the loaded config.toml
    app_data,      \* main(): app_data, the loaded app.toml
    rpc_i,         \* get_trust_settings: index of the loop over rpc_servers
    latest_height, \* get_trust_settings: latest_height of the current endpoint
    trust,         \* main(): (trust_height, trust_hash) returned by the resolver
    queries,       \* the urlopen calls of get_trust_settings, in order, with their
                   \* answers, kept until config.toml is written
    start_cmd,     \* main(): start_cmd
    trace,         \* the external commands and file operations of this run, in order
    backend_only_runs, \* backend whose backend-only branch ran to its end: in the
                   \* run before this one (prev) and in the latest run (cur)
    port_case,     \* increment_port under test: its arguments and its results
    exit_code,     \* exit status of the last finished run (-1: none yet)
    path,          \* branch of line 181 taken by this run
    pre,           \* the home as it was when this run began to reconcile
    anchor_src     \* the answers the persisted trust anchor was resolved from

vars ==
    <<runs, pc, args, home, config_data, app_data, rpc_i, latest_height, trust,
      queries, start_cmd, trace, exit_code, path, pre, anchor_src,
      backend_only_runs, port_case>>

NoArgs ==
    [backend |-> "none", clean |-> FALSE, state_sync_enable |-> FALSE,
     state_sync_rpc_servers |-> <<>>, port_offset_flag |-> <<>>,
     disable_fastnode |-> FALSE, halt_height |-> 0]

NoTrust == [found |-> FALSE, height |-> 0, hash |-> <<>>]

NoAnchorSrc == [rpc |-> "none", latest |-> 0]

NoBackendOnlyRuns == [prev |-> "none", cur |-> "none"]

\* no call of increment_port under test
NoPortCase ==
    [stage |-> "none", addr |-> <<>>, offset |-> 0,
     shifted |-> [raised |-> FALSE, value |-> <<>>],
     back |-> [raised |-> FALSE, value |-> <<>>]]

Init ==
    /\ runs = 0
    /\ pc = "idle"
    /\ args = NoArgs
    /\ home = NoHome
    /\ config_data = NoneVal
    /\ app_data = NoneVal
    /\ rpc_i = 0
    /\ latest_height = 0
    /\ trust = NoTrust
    /\ queries = <<>>
    /\ start_cmd = <<>>
    /\ trace = <<>>
    /\ exit_code = -1
    /\ path = "none"
    /\ pre = NoHome
    /\ anchor_src = NoAnchorSrc
    /\ backend_only_runs = NoBackendOnlyRuns
    /\ port_case = NoPortCase

\* sys.exit(code), or the interpreter ending on an uncaught exception
Exit(code) ==
    /\ pc' = "exited"
    /\ exit_code' = code

\* one entry of the trace: the operation and whether it succeeded
Op(op, ok) == [op |-> op, ok |-> ok]

Did(op) == trace' = Append(trace, Op(op, TRUE))

Failed(op) == trace' = Append(trace, Op(op, FALSE))

(***************************************************************************)
(* main(), lines 123-158: parse the arguments, check that the binary       *)
(* exists. check_backend_support only prints.                              *)
(***************************************************************************)
StartRun ==
    /\ pc = "idle"
    /\ runs < MaxRuns
    /\ runs' = runs + 1
    /\ \E a \in ArgSpace : args' = a
    /\ backend_only_runs' = [prev |-> backend_only_runs.cur, cur |-> "none"]
    /\ \E binary_is_file \in BOOLEAN :
          IF binary_is_file
          THEN pc' = "clean" /\ exit_code' = exit_code
          ELSE Exit(1)
    /\ UNCHANGED <<home, config_data, app_data, rpc_i, latest_height, trust,
                   queries, start_cmd, trace, path, pre, anchor_src,
                   port_case>>

\* the memory of a process that has ended
LocalsGone ==
    /\ args' = NoArgs
    /\ config_data' = NoneVal
    /\ app_data' = NoneVal
    /\ rpc_i' = 0
    /\ latest_height' = 0
    /\ trust' = NoTrust
    /\ queries' = <<>>
    /\ start_cmd' = <<>>
    /\ trace' = <<>>
    /\ path' = "none"
    /\ pre' = NoHome

\* the process is gone: nothing of a run but the home outlives it
ProcessEnd ==
    /\ pc = "exited"
    /\ pc' = "idle"
    /\ exit_code' = -1
    /\ LocalsGone
    /\ UNCHANGED <<runs, home, anchor_src,
                   port_case, backend_only_runs>>

(***************************************************************************)
(* main(), lines 160-172: --clean. pkill may raise; the exception is       *)
(* caught and the home is removed all the same.                            *)
(***************************************************************************)
\* faulty variant of rmtree: only the config directory is removed
rmtree_config_only(h) ==
    [h EXCEPT !.config_dir = FALSE, !.config_toml = NoFile, !.app_toml = NoFile]

\* shutil.rmtree(args.home), line 172
rmtree(h) == NoHome

CleanHome ==
    /\ pc = "clean"
    /\ IF args.clean
       THEN /\ \E killed \in BOOLEAN :
                 trace' = trace \o <<Op("pkill", killed)>>
                                \o (IF home.exists THEN <<Op("rmtree", TRUE)>>
                                    ELSE <<>>)
            /\ home' = IF home.exists THEN rmtree(home) ELSE home
       ELSE UNCHANGED <<home, trace>>
    /\ pc' = "branch"
    /\ UNCHANGED <<runs, args, config_data, app_data, rpc_i, latest_height, trust,
                   queries, start_cmd, exit_code, path, pre, anchor_src,
                   port_case, backend_only_runs>>

\* faulty variant of needs_init: the config directory is not looked at
needs_init_clean_only(h, a) == a.clean

\* line 181: not os.path.exists(config_dir) or args.clean
needs_init(h, a) == ~h.config_dir \/ a.clean

InitCommands ==
    <<"init", "keys_add", "add_genesis_account", "gentx", "collect_gentxs">>

ChoosePath ==
    /\ pc = "branch"
    /\ IF needs_init(home, args)
       THEN /\ path' = "init"
            /\ pc' = InitCommands[1]
            /\ pre' = pre
       ELSE /\ path' = "backend"
            /\ pc' = "backend_only"
            /\ pre' = home
    /\ UNCHANGED <<runs, args, home, config_data, app_data, rpc_i, latest_height, trust,
                   queries, start_cmd, trace, exit_code, anchor_src,
                   port_case, backend_only_runs>>

\* faulty variant of run_command: the return code is not checked (check=False)
run_command_unchecked(returncode) == TRUE

(***************************************************************************)
(* run_command(cmd), lines 27-34: TRUE when it returns to the caller,      *)
(* FALSE when it ends the run with sys.exit(1).                            *)
(***************************************************************************)
run_command(returncode) == returncode = 0

ReturnCodes == {0, 1}

\* the home after a successful `gaiad init`
initialized_home(h, out) ==
    [exists |-> TRUE, config_dir |-> TRUE, config_toml |-> out.config_toml,
     app_toml |-> out.app_toml, marker |-> h.marker \/ out.marker]

(***************************************************************************)
(* main(), lines 183-198: the five mandatory commands of the init path,    *)
(* one per step. pc names the command about to run.                        *)
(***************************************************************************)
RunInitCommand ==
    \E i \in 1..Len(InitCommands) :
        /\ pc = InitCommands[i]
        /\ \E rc \in ReturnCodes :
              /\ trace' = Append(trace, Op(InitCommands[i], rc = 0))
              /\ IF run_command(rc)
                 THEN /\ \E out \in InitOutputs :
                           home' = IF i = 1 THEN initialized_home(home, out)
                                   ELSE home
                      /\ pc' = IF i < Len(InitCommands)
                               THEN InitCommands[i + 1] ELSE "load_config"
                      /\ pre' = IF i < Len(InitCommands) THEN pre ELSE home'
                      /\ exit_code' = exit_code
                 ELSE /\ Exit(1)
                      /\ UNCHANGED <<home, pre>>
        /\ UNCHANGED <<runs, args, config_data, app_data, rpc_i, latest_height,
                       trust, queries, start_cmd, path, anchor_src,
                       port_case, backend_only_runs>>

(***************************************************************************)
(* main(), lines 203-206: read and parse config.toml. A failure is an      *)
(* uncaught exception: the run ends there.                                 *)
(***************************************************************************)
LoadConfig ==
    /\ pc = "load_config"
    /\ \E readable \in BOOLEAN :
          IF readable /\ home.config_toml.present
          THEN /\ config_data' = toml_load(home.config_toml)
               /\ Did("load_config")
               /\ pc' = "reconcile_config"
               /\ exit_code' = exit_code
          ELSE /\ Exit(1)
               /\ Failed("load_config")
               /\ UNCHANGED config_data
    /\ UNCHANGED <<runs, args, home, app_data, rpc_i, latest_height, trust,
                   queries, start_cmd, path, pre, anchor_src,
                   port_case, backend_only_runs>>

\* faulty variant of shift_config_ports: p2p.laddr is left out
shift_config_ports_no_p2p(data, offset) ==
    LET rpc == increment_port(data.rpc_laddr, offset)
        pprof == increment_port(data.pprof_laddr, offset)
    IN  [raised |-> rpc.raised \/ pprof.raised,
         data |-> [data EXCEPT !.rpc_laddr = rpc.value,
                               !.pprof_laddr = pprof.value]]

\* lines 216-220: the three listen addresses of config.toml
shift_config_ports(data, offset) ==
    LET rpc == increment_port(data.rpc_laddr, offset)
        pprof == increment_port(data.pprof_laddr, offset)
        p2p == increment_port(data.p2p_laddr, offset)
    IN  [raised |-> rpc.raised \/ pprof.raised \/ p2p.raised,
         data |-> [data EXCEPT !.rpc_laddr = rpc.value,
                               !.pprof_laddr = pprof.value,
                               !.p2p_laddr = p2p.value]]

\* faulty variant of reconcile_config: persistent_peers is left as init wrote it
reconcile_config_keeps_peers(data, a) ==
    LET d1 == [data EXCEPT !.seeds = SEEDS, !.db_backend = a.backend]
        offset == port_offset_of(a.port_offset_flag)
    IN  IF offset > 0 THEN shift_config_ports(d1, offset)
        ELSE [raised |-> FALSE, data |-> d1]

\* lines 209-220: seeds, persistent_peers, db_backend, port offset
reconcile_config(data, a) ==
    LET d1 == [data EXCEPT !.seeds = SEEDS,
                           !.persistent_peers = "",
                           !.db_backend = a.backend]
        offset == port_offset_of(a.port_offset_flag)
    IN  IF offset > 0 THEN shift_config_ports(d1, offset)
        ELSE [raised |-> FALSE, data |-> d1]

ReconcileConfig ==
    /\ pc = "reconcile_config"
    /\ LET r == reconcile_config(config_data, args)
       IN  IF r.raised
           THEN /\ Exit(1)
                /\ UNCHANGED <<config_data, rpc_i>>
           ELSE /\ config_data' = r.data
                /\ exit_code' = exit_code
                /\ IF args.state_sync_enable
                   THEN pc' = "query_status" /\ rpc_i' = 1
                   ELSE pc' = "set_statesync" /\ rpc_i' = rpc_i
    /\ UNCHANGED <<runs, args, home, app_data, latest_height, trust, queries,
                   start_cmd, trace, path, pre, anchor_src,
                   port_case, backend_only_runs>>

(***************************************************************************)
(* get_trust_settings(rpc_servers_str), lines 53-81, one urlopen per step. *)
(* rpc_i is the position of the for loop in rpc_servers.                   *)
(***************************************************************************)
\* line 66
trust_height_of(latest) == latest - TRUST_MARGIN

\* line 67: "Chain too young"
too_young(trust_height) == trust_height <= 0

\* faulty variant of block_query_height: the hash of the latest block is asked for
block_query_height_latest(latest) == latest

\* the height the block query of line 72 asks for
block_query_height(latest) == trust_height_of(latest)

StatusQuery(i, rpc, r) ==
    [i |-> i, rpc |-> rpc, query |-> "status", height |-> 0,
     kind |-> r.kind, latest |-> r.height, hash |-> <<>>]

BlockQuery(i, rpc, h, r) ==
    [i |-> i, rpc |-> rpc, query |-> "block", height |-> h,
     kind |-> r.kind, latest |-> 0, hash |-> r.hash]

\* faulty variant of NextServer: the failed server is asked again
NextServer_retry ==
    /\ rpc_i' = rpc_i
    /\ pc' = "query_status"
    /\ trust' = trust
    /\ trace' = trace

\* `continue`, or the except clause: on to the next server; after the last one
\* the loop ends and the function returns (None, None). The trace records the
\* return of the resolver: ok when it returns a pair, not ok for (None, None).
NextServer ==
    IF rpc_i < Len(args.state_sync_rpc_servers)
    THEN /\ rpc_i' = rpc_i + 1
         /\ pc' = "query_status"
         /\ trust' = trust
         /\ trace' = trace
    ELSE /\ rpc_i' = rpc_i
         /\ pc' = "set_statesync"
         /\ trust' = NoTrust
         /\ Failed("get_trust_settings")

\* lines 61-69: urlopen(f"{rpc}/status"), int(latest_block_height), the age test
QueryStatus ==
    /\ pc = "query_status"
    /\ LET rpc == args.state_sync_rpc_servers[rpc_i]
       IN  \E r \in StatusResponses :
              /\ queries' = Append(queries, StatusQuery(rpc_i, rpc, r))
              /\ IF r.kind = "ok" /\ ~too_young(trust_height_of(r.height))
                 THEN /\ latest_height' = r.height
                      /\ pc' = "query_block"
                      /\ UNCHANGED <<rpc_i, trust, trace>>
                 ELSE /\ latest_height' = IF r.kind = "ok" THEN r.height
                                          ELSE latest_height
                      /\ NextServer
    /\ UNCHANGED <<runs, args, home, config_data, app_data, start_cmd,
                   exit_code, path, pre, anchor_src,
                   port_case, backend_only_runs>>

\* lines 72-76: urlopen(f"{rpc}/block?height={trust_height}"), the hash, return
QueryBlock ==
    /\ pc = "query_block"
    /\ LET rpc == args.state_sync_rpc_servers[rpc_i]
           h == block_query_height(latest_height)
       IN  \E r \in BlockResponses(rpc, h) :
              /\ queries' = Append(queries, BlockQuery(rpc_i, rpc, h, r))
              /\ IF r.kind = "ok"
                 THEN /\ trust' = [found |-> TRUE,
                                   height |-> trust_height_of(latest_height),
                                   hash |-> r.hash]
                      /\ pc' = "set_statesync"
                      /\ rpc_i' = rpc_i
                      /\ Did("get_trust_settings")
                 ELSE NextServer
    /\ UNCHANGED <<runs, args, home, config_data, app_data, latest_height,
                   start_cmd, exit_code, path, pre, anchor_src,
                   port_case, backend_only_runs>>

(***************************************************************************)
(* main(), lines 223-239: the statesync table                              *)
(***************************************************************************)
\* faulty variant of anchor_usable: the hash is not looked at
anchor_usable_height_only(t) == t.found /\ t.height # 0

\* line 227: if trust_height and trust_hash
anchor_usable(t) == t.found /\ t.height # 0 /\ t.hash # <<>>

\* faulty variant of set_statesync: state-sync is switched on whatever the resolver said
set_statesync_unchecked(data, a, t) ==
    IF a.state_sync_enable
    THEN [data EXCEPT !.ss_enable = TRUE,
                      !.ss_rpc_servers = a.state_sync_rpc_servers,
                      !.ss_trust_height = t.height,
                      !.ss_trust_hash = t.hash,
                      !.ss_trust_period = TRUST_PERIOD]
    ELSE [data EXCEPT !.ss_enable = FALSE, !.ss_rpc_servers = <<>>]

set_statesync(data, a, t) ==
    IF a.state_sync_enable
    THEN IF anchor_usable(t)
         THEN [data EXCEPT !.ss_enable = TRUE,
                           !.ss_rpc_servers = a.state_sync_rpc_servers,
                           !.ss_trust_height = t.height,
                           !.ss_trust_hash = t.hash,
                           !.ss_trust_period = TRUST_PERIOD]
         ELSE [data EXCEPT !.ss_enable = FALSE]
    ELSE [data EXCEPT !.ss_enable = FALSE, !.ss_rpc_servers = <<>>]

SetStateSync ==
    /\ pc = "set_statesync"
    /\ config_data' = set_statesync(config_data, args, trust)
    /\ pc' = "write_config"
    /\ UNCHANGED <<runs, args, home, app_data, rpc_i, latest_height, trust,
                   queries, start_cmd, trace, exit_code, path, pre, anchor_src,
                   port_case, backend_only_runs>>

\* lines 242-243: with open(config_path, 'w') as f: toml.dump(config_data, f)
WriteConfig ==
    /\ pc = "write_config"
    /\ home' = [home EXCEPT !.config_toml = toml_dump(config_data)]
    /\ anchor_src' = IF config_data.ss_enable
                     THEN [rpc |-> args.state_sync_rpc_servers[rpc_i],
                           latest |-> latest_height]
                     ELSE NoAnchorSrc
    /\ Did("write_config")
    /\ pc' = "load_app"
    \* the resolver's calls are kept until what they gave is on disk
    /\ rpc_i' = 0
    /\ latest_height' = 0
    /\ queries' = <<>>
    /\ UNCHANGED <<runs, args, config_data, app_data, trust,
                   start_cmd, exit_code, path, pre,
                   port_case, backend_only_runs>>

(***************************************************************************)
(* main(), lines 247-262: app.toml                                         *)
(***************************************************************************)
LoadApp ==
    /\ pc = "load_app"
    /\ \E readable \in BOOLEAN :
          IF readable /\ home.app_toml.present
          THEN /\ app_data' = toml_load(home.app_toml)
               /\ Did("load_app")
               /\ pc' = "reconcile_app"
               /\ exit_code' = exit_code
          ELSE /\ Exit(1)
               /\ Failed("load_app")
               /\ UNCHANGED app_data
    /\ UNCHANGED <<runs, args, home, config_data, rpc_i, latest_height, trust,
                   queries, start_cmd, path, pre, anchor_src,
                   port_case, backend_only_runs>>

API_DEFAULT == TCP \o AnyHost \o <<":", "1", "3", "1", "7">>
GRPC_DEFAULT == AnyHost \o <<":", "9", "0", "9", "0">>
GRPC_WEB_DEFAULT == AnyHost \o <<":", "9", "0", "9", "1">>

\* lines 254-259: if name in app_data: table['address'] =
\*                    increment_port(table.get('address', default), offset)
shift_section(section, default, offset) ==
    IF section.present
    THEN LET r == increment_port(IF section.has_address THEN section.address
                                 ELSE default, offset)
         IN  [raised |-> r.raised,
              section |-> [present |-> TRUE, has_address |-> TRUE,
                           address |-> r.value]]
    ELSE [raised |-> FALSE, section |-> section]

\* lines 249-259: minimum-gas-prices, port offset
reconcile_app(data, a) ==
    LET d1 == [data EXCEPT !.minimum_gas_prices = MIN_GAS_PRICE]
        offset == port_offset_of(a.port_offset_flag)
        api == shift_section(d1.api, API_DEFAULT, offset)
        grpc == shift_section(d1.grpc, GRPC_DEFAULT, offset)
        web == shift_section(d1.grpc_web, GRPC_WEB_DEFAULT, offset)
    IN  IF offset > 0
        THEN [raised |-> api.raised \/ grpc.raised \/ web.raised,
              data |-> [d1 EXCEPT !.api = api.section, !.grpc = grpc.section,
                                  !.grpc_web = web.section]]
        ELSE [raised |-> FALSE, data |-> d1]

ReconcileApp ==
    /\ pc = "reconcile_app"
    /\ LET r == reconcile_app(app_data, args)
       IN  IF r.raised
           THEN Exit(1) /\ UNCHANGED app_data
           ELSE /\ app_data' = r.data
                /\ pc' = "write_app"
                /\ exit_code' = exit_code
    /\ UNCHANGED <<runs, args, home, config_data, rpc_i, latest_height, trust,
                   queries, start_cmd, trace, path, pre, anchor_src,
                   port_case, backend_only_runs>>

\* lines 261-262
WriteApp ==
    /\ pc = "write_app"
    /\ home' = [home EXCEPT !.app_toml = toml_dump(app_data)]
    /\ Did("write_app")
    /\ pc' = "launch_plan"
    /\ UNCHANGED <<runs, args, config_data, app_data, rpc_i, latest_height, trust,
                   queries, start_cmd, exit_code, path, pre, anchor_src,
                   port_case, backend_only_runs>>

(***************************************************************************)
(* main(), lines 266-274: the home is initialised already. Only            *)
(* db_backend is looked at; the file is rewritten when it differs.         *)
(***************************************************************************)
\* faulty variant of backend_differs: the file is rewritten on every run
backend_differs_always(data, a) == TRUE

\* faulty variant of backend_differs: the file is never rewritten
backend_differs_never(data, a) == FALSE

\* line 270
backend_differs(data, a) == data.db_backend # a.backend

\* faulty variant of backend_update: the rerun reconciles the whole table again
backend_update_full(data, a) == reconcile_config(data, a).data

\* line 271
backend_update(data, a) == [data EXCEPT !.db_backend = a.backend]

BackendOnly ==
    /\ pc = "backend_only"
    /\ \E readable \in BOOLEAN :
          IF readable /\ home.config_toml.present
          THEN LET data == toml_load(home.config_toml)
               IN  IF backend_differs(data, args)
                   THEN /\ config_data' = backend_update(data, args)
                        /\ home' = [home EXCEPT
                                       !.config_toml = toml_dump(config_data')]
                        /\ trace' = trace \o <<Op("backend_load", TRUE),
                                               Op("backend_write", TRUE)>>
                        /\ pc' = "launch_plan"
                        /\ exit_code' = exit_code
                        /\ backend_only_runs' =
                               [backend_only_runs EXCEPT !.cur = args.backend]
                   ELSE /\ config_data' = data
                        /\ home' = home
                        /\ Did("backend_load")
                        /\ pc' = "launch_plan"
                        /\ exit_code' = exit_code
                        /\ backend_only_runs' =
                               [backend_only_runs EXCEPT !.cur = args.backend]
          ELSE /\ Exit(1)
               /\ Failed("backend_load")
               /\ UNCHANGED <<config_data, home, backend_only_runs>>
    /\ UNCHANGED <<runs, args, app_data, rpc_i, latest_height, trust, queries,
                   start_cmd, path, pre, anchor_src,
                   port_case>>

(***************************************************************************)
(* main(), lines 279-291: start_cmd                                        *)
(***************************************************************************)
Arg(opt, arg, n) == [opt |-> opt, arg |-> arg, n |-> n]

\* faulty variant of launch_plan: a halt height of 0 is passed on as well
launch_plan_halt_always(a) ==
    <<Arg("start", "", 0), Arg("--home", "home", 0),
      Arg("--db_backend", a.backend, 0)>>
    \o (IF a.disable_fastnode THEN <<Arg("--iavl-disable-fastnode", "", 0)>>
        ELSE <<>>)
    \o <<Arg("--halt-height=", "", a.halt_height)>>

launch_plan(a) ==
    <<Arg("start", "", 0), Arg("--home", "home", 0),
      Arg("--db_backend", a.backend, 0)>>
    \o (IF a.disable_fastnode THEN <<Arg("--iavl-disable-fastnode", "", 0)>>
        ELSE <<>>)
    \o (IF a.halt_height > 0 THEN <<Arg("--halt-height=", "", a.halt_height)>>
        ELSE <<>>)

BuildLaunchPlan ==
    /\ pc = "launch_plan"
    /\ start_cmd' = launch_plan(args)
    /\ pc' = "pre_launch"
    /\ UNCHANGED <<runs, args, home, config_data, app_data, rpc_i, latest_height,
                   trust, queries, trace, exit_code, path, pre, anchor_src,
                   port_case, backend_only_runs>>

(***************************************************************************)
(* main(), lines 294-296: unsafe-reset-all before a state-sync start       *)
(***************************************************************************)
\* faulty variant of needs_reset: the marker file is not looked at
needs_reset_always(h, a) == a.state_sync_enable

needs_reset(h, a) == a.state_sync_enable /\ ~h.marker

PreLaunchReset ==
    /\ pc = "pre_launch"
    /\ IF needs_reset(home, args)
       THEN \E rc \in ReturnCodes :
               /\ trace' = Append(trace, Op("unsafe_reset_all", rc = 0))
               /\ IF run_command(rc)
                  THEN /\ home' = [home EXCEPT !.marker = TRUE]
                       /\ pc' = "start"
                       /\ exit_code' = exit_code
                  ELSE Exit(1) /\ UNCHANGED home
       ELSE /\ pc' = "start"
            /\ UNCHANGED <<home, trace, exit_code>>
    /\ UNCHANGED <<runs, args, config_data, app_data, rpc_i, latest_height, trust,
                   queries, start_cmd, path, pre, anchor_src,
                   port_case, backend_only_runs>>

(***************************************************************************)
(* main(), lines 298-301: run_command(start_cmd). The script blocks while  *)
(* the node runs; Ctrl-C then is "Node stopped." and a normal exit.        *)
(***************************************************************************)
StartNode ==
    /\ pc = "start"
    /\ Did("start")
    /\ home' = [home EXCEPT !.marker = TRUE]
    /\ pc' = "node_running"
    /\ UNCHANGED <<runs, args, config_data, app_data, rpc_i, latest_height, trust,
                   queries, start_cmd, exit_code, path, pre, anchor_src,
                   port_case, backend_only_runs>>

NodeExit ==
    /\ pc = "node_running"
    /\ \E how \in {"exit0", "exit1", "interrupt"} :
          Exit(IF how = "exit1" /\ ~run_command(1) THEN 1 ELSE 0)
    /\ UNCHANGED <<runs, args, home, config_data, app_data, rpc_i, latest_height,
                   trust, queries, start_cmd, trace, path, pre, anchor_src,
                   port_case, backend_only_runs>>

\* Ctrl-C anywhere before the node runs: an uncaught KeyboardInterrupt
InRun == pc \notin {"idle", "exited", "node_running"}

Interrupt ==
    /\ InRun
    /\ Exit(130)
    /\ LocalsGone
    /\ UNCHANGED <<runs, home, anchor_src,
                   port_case, backend_only_runs>>

Next ==
    \/ StartRun
    \/ ProcessEnd
    \/ CleanHome
    \/ ChoosePath
    \/ RunInitCommand
    \/ LoadConfig
    \/ ReconcileConfig
    \/ QueryStatus
    \/ QueryBlock
    \/ SetStateSync
    \/ WriteConfig
    \/ LoadApp
    \/ ReconcileApp
    \/ WriteApp
    \/ BackendOnly
    \/ BuildLaunchPlan
    \/ PreLaunchReset
    \/ StartNode
    \/ NodeExit
    \/ Interrupt

Spec == Init /\ [][Next]_vars

(***************************************************************************)
(* increment_port as a pure function: a second specification that calls it *)
(* on sample addresses and offsets, then calls it again with the negated   *)
(* offset on what the first call returned.                                 *)
(***************************************************************************)
\* address strings handed to increment_port
PortAddrs ==
    { TCP \o AnyHost \o <<":", "2", "6", "6", "5", "6">>,
      TCP \o Localhost \o <<":", "6", "0", "6", "0">>,
      Localhost \o <<":", "9", "0", "9", "0">>,
      <<"[", ":", ":", "1", "]", ":", "8", "0">>,
      <<":", "8", "0">>,
      AnyHost \o <<":", "0">>,
      Localhost \o <<":", "-", "5">>,
      Localhost \o <<":", "0", "0", "8", "0">>,
      Localhost \o <<":", "+", "8", "0">>,
      Localhost \o <<":", " ", "8", "0">>,
      Localhost \o <<":", "8", "_", "0">>,
      <<>>,
      Localhost,
      Localhost \o <<":">>,
      Localhost \o <<":", "a", "b", "c">>,
      TCP \o Localhost,
      TCP \o TCP \o Localhost \o <<":", "8", "0">> }

\* integer offsets handed to increment_port
PortOffsets == {-1000, -1, 0, 1, 1000}

InitPort ==
    /\ runs = 0
    /\ pc = "idle"
    /\ args = NoArgs
    /\ home = NoHome
    /\ config_data = NoneVal
    /\ app_data = NoneVal
    /\ rpc_i = 0
    /\ latest_height = 0
    /\ trust = NoTrust
    /\ queries = <<>>
    /\ start_cmd = <<>>
    /\ trace = <<>>
    /\ exit_code = -1
    /\ path = "none"
    /\ pre = NoHome
    /\ anchor_src = NoAnchorSrc
    /\ backend_only_runs = NoBackendOnlyRuns
    /\ \E a \in PortAddrs, n \in PortOffsets :
          port_case = [NoPortCase EXCEPT !.stage = "in", !.addr = a, !.offset = n]

\* increment_port(addr, offset)
ShiftPort ==
    /\ port_case.stage = "in"
    /\ port_case' = [port_case EXCEPT
                         !.stage = "shifted",
                         !.shifted = increment_port(port_case.addr, port_case.offset)]
    /\ UNCHANGED <<runs, pc, args, home, config_data, app_data, rpc_i,
                   latest_height, trust, queries, start_cmd, trace, exit_code,
                   path, pre, anchor_src, backend_only_runs>>

\* increment_port(increment_port(addr, offset), -offset): the exception of the
\* inner call, if any, is what the whole expression raises
ShiftBack ==
    /\ port_case.stage = "shifted"
    /\ port_case' = [port_case EXCEPT
                         !.stage = "back",
                         !.back = IF port_case.shifted.raised
                                  THEN port_case.shifted
                                  ELSE increment_port(port_case.shifted.value,
                                                      0 - port_case.offset)]
    /\ UNCHANGED <<runs, pc, args, home, config_data, app_data, rpc_i,
                   latest_height, trust, queries, start_cmd, trace, exit_code,
                   path, pre, anchor_src, backend_only_runs>>

NextPort ==
    \/ ShiftPort
    \/ ShiftBack

SpecPort == InitPort /\ [][NextPort]_vars

(***************************************************************************)
(* Properties                                                              *)
(***************************************************************************)
\* the operation op is in the trace of the current run with outcome ok
InTrace(op, ok) == \E k \in 1..Len(trace) : trace[k] = Op(op, ok)

\* the resolver has returned (None, None) in this run
ResolvedNotFound == InTrace("get_trust_settings", FALSE)

\* the resolver has returned a pair in this run
ResolvedPair == InTrace("get_trust_settings", TRUE)

\* get_trust_settings has returned to main and its calls are still on record
ResolverLogged == pc \in {"set_statesync", "write_config"}

ConfigOnDisk == home.config_toml.data

\* C1: on the full reconciliation path with state-sync requested, when the
\* resolver returns (None, None) the config.toml that is written has
\* statesync.enable = false, and the run does not end there: if it ends with an
\* error at all, it does so after config.toml has been written.
C1_NotFoundDisablesStateSync ==
    (path = "init" /\ args.state_sync_enable /\ ResolvedNotFound) =>
        /\ (pc = "write_config" => ~config_data.ss_enable)
        /\ (InTrace("write_config", TRUE) => ~ConfigOnDisk.ss_enable)
        /\ (pc = "exited" => InTrace("write_config", TRUE))

C1_Witness ==
    /\ path = "init" /\ args.state_sync_enable /\ ResolvedNotFound
    /\ pc = "node_running"
    /\ ~ConfigOnDisk.ss_enable

\* C2: in every config.toml on disk, after any sequence of runs,
\* statesync.enable = true implies that a valid anchor is persisted with it:
\* trust_height > 0 and equal to the resolving endpoint's latest height minus
\* 2000, trust_hash non-empty and the hash that endpoint served for that
\* height, trust_period "168h".
C2_EnabledImpliesValidAnchor ==
    (home.config_toml.present /\ ConfigOnDisk.ss_enable) =>
        /\ ConfigOnDisk.ss_trust_height > 0
        /\ ConfigOnDisk.ss_trust_height = anchor_src.latest - 2000
        /\ ConfigOnDisk.ss_trust_hash # <<>>
        /\ ConfigOnDisk.ss_trust_hash =
               BlockHash(anchor_src.rpc, ConfigOnDisk.ss_trust_height)
        /\ ConfigOnDisk.ss_trust_period = "168h"

\* state-sync is still enabled on disk in a later run that did not re-initialise
C2_Witness ==
    /\ home.config_toml.present /\ ConfigOnDisk.ss_enable
    /\ runs = 2 /\ path = "backend" /\ pc = "node_running"

\* the queries of this run sent to the server at position i of the list
StatusQueries(i) ==
    {k \in 1..Len(queries) : queries[k].i = i /\ queries[k].query = "status"}

BlockQueries(i) ==
    {k \in 1..Len(queries) : queries[k].i = i /\ queries[k].query = "block"}

Contacted(i) == StatusQueries(i) # {}

\* the server at position i answered with a height and with a non-empty hash
Yielded(i) ==
    /\ \E k \in StatusQueries(i) : queries[k].kind = "ok"
    /\ \E k \in BlockQueries(i) : queries[k].kind = "ok" /\ queries[k].hash # <<>>

EndpointFailed(i) == Contacted(i) /\ ~Yielded(i)

\* C4: every failure of a server (network error, malformed answer, missing or
\* invalid height or hash, chain too young) sends the resolver on to the next
\* server, and the resolver returns (None, None) exactly when every server of
\* the list failed.
C4_EveryFailureAdvances ==
    (ResolverLogged /\ (ResolvedPair \/ ResolvedNotFound)) =>
        /\ \A i \in 1..(Len(args.state_sync_rpc_servers) - 1) :
              EndpointFailed(i) => Contacted(i + 1)
        /\ ResolvedNotFound <=>
              \A i \in 1..Len(args.state_sync_rpc_servers) : EndpointFailed(i)

\* C5: a pair returned by the resolver has height H - 2000 > 0, H being the
\* latest height the winning server reported, and the hash that same server
\* returned for the block query at exactly that height.
C5_AnchorFromWinningEndpoint ==
    (ResolverLogged /\ ResolvedPair) =>
        LET w == queries[Len(queries)].i
        IN  /\ trust.height > 0
            /\ \E k \in StatusQueries(w) :
                  /\ queries[k].kind = "ok"
                  /\ trust.height = queries[k].latest - 2000
            /\ \E k \in BlockQueries(w) :
                  /\ k = Len(queries)
                  /\ queries[k].kind = "ok"
                  /\ queries[k].height = trust.height
                  /\ queries[k].hash = trust.hash

\* the first server reports 1500, the second 50000: height 48000 from the second
C5_Witness ==
    /\ ResolverLogged /\ ResolvedPair
    /\ queries[1].kind = "ok" /\ queries[1].latest = 1500
    /\ queries[Len(queries)].i = 2
    /\ trust.height = 48000
    /\ trust.hash = BlockHash("E2", 48000)

InitPathPcs ==
    {InitCommands[i] : i \in 1..Len(InitCommands)}
    \cup {"load_config", "reconcile_config", "query_status", "query_block",
          "set_statesync", "write_config", "load_app", "reconcile_app",
          "write_app"}

InitPathOps ==
    {InitCommands[i] : i \in 1..Len(InitCommands)}
    \cup {"load_config", "get_trust_settings", "write_config", "load_app",
          "write_app"}

BackendPathOps == {"backend_load", "backend_write"}

\* the operations a step adds to the trace
NewOps ==
    IF Len(trace') > Len(trace)
    THEN {trace'[k].op : k \in (Len(trace) + 1)..Len(trace')}
    ELSE {}

C6_Step ==
    /\ (pc = "branch" /\ pc' # "exited") =>
          IF ~home.config_dir \/ args.clean
          THEN pc' = "init" /\ path' = "init"
          ELSE pc' = "backend_only" /\ path' = "backend"
    /\ pc \in InitPathPcs =>
          /\ path = "init"
          /\ NewOps \cap BackendPathOps = {}
          /\ pc' \notin {"backend_only", "branch"}
    /\ pc = "backend_only" =>
          /\ path = "backend"
          /\ NewOps \cap InitPathOps = {}
          /\ pc' \in {"launch_plan", "exited"}
    /\ pc \in {"launch_plan", "pre_launch", "start", "node_running"} =>
          /\ path \in {"init", "backend"}
          /\ NewOps \cap (InitPathOps \cup BackendPathOps) = {}
          /\ pc' \notin InitPathPcs \cup {"backend_only", "branch"}
    /\ (path # "none" /\ pc' \notin {"exited", "idle"}) => path' = path

\* C6: a run takes the init path (the init commands, then the full
\* reconciliation) if and only if the home has no config directory at that
\* point or --clean was given; otherwise it takes the backend-only path and
\* runs no init command and no step of the full reconciliation. Every run that
\* gets there takes exactly one of the two.
C6_PathChoice == [][C6_Step]_vars

C6_Witness ==
    /\ runs = 2 /\ path = "backend" /\ pc = "launch_plan"
    /\ InTrace("backend_load", TRUE)

\* C7: on the backend-only path app.toml is what it was, and config.toml
\* differs from what it was in db_backend at most, and is rewritten only when
\* db_backend differed from the requested backend.
C7_BackendOnlyFrame ==
    path = "backend" =>
        /\ home.app_toml = pre.app_toml
        /\ home.config_toml.present /\ pre.config_toml.present
        /\ [ConfigOnDisk EXCEPT !.db_backend = pre.config_toml.data.db_backend]
               = pre.config_toml.data
        /\ home.config_toml # pre.config_toml =>
              /\ pre.config_toml.data.db_backend # args.backend
              /\ ConfigOnDisk.db_backend = args.backend

\* a rerun with another backend, a port offset and --state-sync-enable
C7_Witness ==
    /\ path = "backend" /\ pc = "node_running"
    /\ InTrace("backend_write", TRUE)
    /\ args.state_sync_enable /\ ~ConfigOnDisk.ss_enable
    /\ args.port_offset_flag = <<1000>>
    /\ pre.config_toml.data.p2p_laddr = TCP \o AnyHost \o <<":", "2", "6", "6", "5", "6">>

\* C8: in the full reconciliation no file is rewritten before both files have
\* been read and mutated, so a fatal read or parse failure of either file ends
\* the run with both files as they were before the reconciliation.
C8_WriteBackIsLast ==
    (path = "init" /\ (InTrace("load_config", FALSE) \/ InTrace("load_app", FALSE)))
        => /\ home.config_toml = pre.config_toml
           /\ home.app_toml = pre.app_toml

\* C9: when a mandatory command of the init path fails, the run ends there
\* with exit status 1: it is the last operation of the run, nothing has been
\* loaded, reconciled or written, no reset and no start command was issued.
C9_InitCommandFailureIsFatal ==
    \A k \in 1..Len(trace) :
        (trace[k].op \in {InitCommands[i] : i \in 1..Len(InitCommands)}
         /\ ~trace[k].ok) =>
            /\ k = Len(trace)
            /\ pc = "exited" /\ exit_code = 1
            /\ config_data = NoneVal /\ app_data = NoneVal
            /\ start_cmd = <<>>
            /\ home.config_toml.fmt # "toml.dump"
            /\ home.app_toml.fmt # "toml.dump"
            /\ \A j \in 1..Len(trace) :
                  trace[j].op \notin {"load_config", "write_config", "load_app",
                                      "write_app", "unsafe_reset_all", "start"}

C9_Witness ==
    /\ pc = "exited" /\ exit_code = 1
    /\ trace # <<>> /\ trace[Len(trace)] = Op("gentx", FALSE)
    /\ InTrace("init", TRUE)

\* the part of an address before its port: scheme, host and the last colon
StemOf(addr) == SubSeq(addr, 1, LastColon(addr, Len(addr)))

\* the port of an address whose last segment is a decimal number
PortOf(addr) ==
    DigitsVal(SubSeq(addr, LastColon(addr, Len(addr)) + 1, Len(addr)), 0)

ShiftedBy(old, new, n) ==
    /\ StemOf(new) = StemOf(old)
    /\ PortOf(new) = PortOf(old) + n

SectionShiftedBy(old, new, n) ==
    (old.present /\ old.has_address) =>
        /\ new.present /\ new.has_address
        /\ ShiftedBy(old.address, new.address, n)

\* C10: after a full reconciliation with a positive port offset N each of the
\* six listen addresses has its port raised by N, scheme and host unchanged;
\* db_backend is the requested backend, and statesync.enable is false when
\* state-sync was not requested.
C10_PortsShifted ==
    (path = "init" /\ InTrace("write_app", TRUE)
     /\ port_offset_of(args.port_offset_flag) > 0) =>
        LET n == port_offset_of(args.port_offset_flag)
            old == pre.config_toml.data
            new == ConfigOnDisk
            oldapp == pre.app_toml.data
            newapp == home.app_toml.data
        IN  /\ ShiftedBy(old.rpc_laddr, new.rpc_laddr, n)
            /\ ShiftedBy(old.pprof_laddr, new.pprof_laddr, n)
            /\ ShiftedBy(old.p2p_laddr, new.p2p_laddr, n)
            /\ SectionShiftedBy(oldapp.api, newapp.api, n)
            /\ SectionShiftedBy(oldapp.grpc, newapp.grpc, n)
            /\ SectionShiftedBy(oldapp.grpc_web, newapp.grpc_web, n)
            /\ new.db_backend = args.backend
            /\ ~args.state_sync_enable => ~new.ss_enable

\* fresh home, backend memdb, offset 1000, state-sync off
C10_Witness ==
    /\ path = "init" /\ InTrace("write_app", TRUE) /\ pc = "node_running"
    /\ runs = 1
    /\ args.backend = "memdb" /\ args.port_offset_flag = <<1000>>
    /\ ~args.state_sync_enable
    /\ ConfigOnDisk.db_backend = "memdb"
    /\ ConfigOnDisk.p2p_laddr = TCP \o AnyHost \o <<":", "2", "7", "6", "5", "6">>
    /\ home.app_toml.data.grpc.address = AnyHost \o <<":", "1", "0", "0", "9", "0">>
    /\ ~ConfigOnDisk.ss_enable

(***************************************************************************)
(* C11 - C13: the port offset and increment_port                           *)
(***************************************************************************)
\* the six listen addresses of a home: three of config.toml, three sections
\* of app.toml
ListenAddresses(h) ==
    <<h.config_toml.data.rpc_laddr, h.config_toml.data.pprof_laddr,
      h.config_toml.data.p2p_laddr, h.app_toml.data.api, h.app_toml.data.grpc,
      h.app_toml.data.grpc_web>>

FullPathDone == path = "init" /\ InTrace("write_app", TRUE)

\* C11 as stated: on the full reconciliation path, when the port offset is
\* zero or the flag is not given, the six listen addresses stay exactly as
\* the init command wrote them.
C11_ZeroOrAbsentLeavesAddresses ==
    (FullPathDone /\ args.port_offset_flag \in {<<>>, <<0>>})
        => ListenAddresses(home) = ListenAddresses(pre)

\* C11 amended: on the full reconciliation path, when the port offset given
\* is zero, the six listen addresses stay exactly as the init command wrote
\* them; when the flag is not given the offset is the default, 1000, and
\* the addresses are shifted by it.
C11_ZeroLeavesAddresses ==
    /\ (FullPathDone /\ args.port_offset_flag = <<0>>)
           => ListenAddresses(home) = ListenAddresses(pre)
    /\ (FullPathDone /\ args.port_offset_flag = <<>>)
           => /\ ShiftedBy(pre.config_toml.data.rpc_laddr,
                           ConfigOnDisk.rpc_laddr, DEFAULT_PORT_OFFSET)
              /\ ShiftedBy(pre.config_toml.data.p2p_laddr,
                           ConfigOnDisk.p2p_laddr, DEFAULT_PORT_OFFSET)

C11_Witness ==
    /\ FullPathDone
    /\ args.port_offset_flag = <<0>>
    /\ pc = "node_running"
    /\ ListenAddresses(home) = ListenAddresses(pre)

\* what follows the scheme separator of an address, the address itself when
\* it has no scheme
AddrRest(a) ==
    LET seps == SepPositions(a, 1)
    IN  IF seps = <<>> THEN a ELSE SubSeq(a, seps[Len(seps)] + 3, Len(a))

\* the text after the last colon of host:port
PortText(a) ==
    LET rest == AddrRest(a)
    IN  SubSeq(rest, LastColon(rest, Len(rest)) + 1, Len(rest))

\* [scheme://]host:port with a port segment int() accepts
HasIntegerPort(a) ==
    /\ Len(SepPositions(a, 1)) <= 1
    /\ LastColon(AddrRest(a), Len(AddrRest(a))) > 0
    /\ PyInt(PortText(a)).ok

\* the port segment is the decimal text str() gives for its value: no "+",
\* no leading zero, no blank, no underscore
HasCanonicalPort(a) ==
    /\ HasIntegerPort(a)
    /\ IntToStr(PyInt(PortText(a)).val) = PortText(a)

\* C12 as stated: for every address [scheme://]host:port whose port segment is
\* a valid integer and every offset n, shifting by n and then by -n gives the
\* address back, character for character.
C12_RoundTripAnyIntegerPort ==
    (port_case.stage = "back" /\ HasIntegerPort(port_case.addr))
        => /\ ~port_case.back.raised
           /\ port_case.back.value = port_case.addr

\* C12 amended: for every address [scheme://]host:port whose port segment is
\* an integer in the decimal text str() gives it (no "+" sign, leading zero,
\* blank or underscore) and every offset n, shifting by n and then by -n
\* gives the address back, character for character.
C12_RoundTripCanonicalPort ==
    (port_case.stage = "back" /\ HasCanonicalPort(port_case.addr))
        => /\ ~port_case.back.raised
           /\ port_case.back.value = port_case.addr

C12_Witness ==
    /\ port_case.stage = "back"
    /\ port_case.addr = TCP \o AnyHost \o <<":", "2", "6", "6", "5", "6">>
    /\ port_case.offset = 1000
    /\ port_case.shifted.value = TCP \o AnyHost \o <<":", "2", "7", "6", "5", "6">>
    /\ port_case.back.value = port_case.addr

\* C13: increment_port returns a value and never raises, for every address
\* string and every integer offset; when the port cannot be parsed, and when
\* the offset is 0, the value returned is the input unchanged.
C13_TotalAndUnchangedOnFailure ==
    (port_case.stage # "in")
        => /\ ~port_case.shifted.raised
           /\ (port_case.offset = 0 \/ ~HasIntegerPort(port_case.addr))
                  => port_case.shifted.value = port_case.addr

(***************************************************************************)
(* C14 - C17: reruns, seeds, clean                                         *)
(***************************************************************************)
\* C14: when the backend-only branch runs twice in a row against the same
\* home with the same backend, the second run writes no file: both
\* configuration files are after it what they were before it.
C14_BackendOnlyIdempotent ==
    (/\ path = "backend"
     /\ backend_only_runs.prev = args.backend
     /\ backend_only_runs.cur = args.backend)
        => /\ ~InTrace("backend_write", TRUE)
           /\ home.config_toml = pre.config_toml
           /\ home.app_toml = pre.app_toml

C14_Witness ==
    /\ path = "backend"
    /\ backend_only_runs.prev = "pebbledb"
    /\ backend_only_runs.cur = "pebbledb"
    /\ args.backend = "pebbledb"
    /\ InTrace("backend_load", TRUE)
    /\ pc = "node_running"

\* C15: after every full reconciliation that wrote config.toml, the seeds
\* persisted are the built-in seed list and persistent_peers is empty.
C15_SeedsSetPeersCleared ==
    (path = "init" /\ InTrace("write_config", TRUE))
        => /\ ConfigOnDisk.seeds = "seed-01:26656,seed-02:26656"
           /\ ConfigOnDisk.persistent_peers = ""

C15_Witness ==
    /\ path = "init"
    /\ InTrace("write_config", TRUE)
    /\ pre.config_toml.data.persistent_peers # ""
    /\ pre.config_toml.data.seeds = ""
    /\ ConfigOnDisk.persistent_peers = ""
    /\ ConfigOnDisk.seeds = SEEDS

\* C16: with clean requested the home is removed entirely before the init
\* command runs, whether or not the kill of running node processes
\* succeeded: nothing of the previous home exists when init starts, and a
\* failed kill does not end the run.
C16_CleanRemovesHomeBeforeInit ==
    /\ (args.clean /\ pc \in {"branch", "init"})
           => /\ home = NoHome
              /\ InTrace("pkill", TRUE) \/ InTrace("pkill", FALSE)
    /\ (args.clean /\ pc = "keys_add")
           => home \in {initialized_home(NoHome, out) : out \in InitOutputs}
    /\ (InTrace("pkill", FALSE) /\ pc = "exited" /\ exit_code = 1)
           => InTrace("init", TRUE) \/ InTrace("init", FALSE)

C16_Witness ==
    /\ args.clean
    /\ InTrace("pkill", FALSE)
    /\ InTrace("rmtree", TRUE)
    /\ pc = "init"
    /\ home = NoHome

\* the home was left by a run that ended inside the init path: gaiad init
\* wrote a file that the script has not rewritten since
AbortedInitHome(h) ==
    /\ h.config_dir
    /\ h.config_toml.fmt = "gaiad" \/ h.app_toml.fmt = "gaiad"

\* C17: a rerun without clean after a run that was aborted inside the init
\* path (the config directory exists already) leaves the persisted
\* configuration fully reconciled before the node is launched: seeds set,
\* persistent_peers cleared, requested backend, shifted ports, minimum gas
\* price.
C17_RerunRepairsAbortedInit ==
    (/\ ~args.clean
     /\ path = "backend"
     /\ AbortedInitHome(pre)
     /\ pc \in {"start", "node_running"})
        => /\ ConfigOnDisk.seeds = SEEDS
           /\ ConfigOnDisk.persistent_peers = ""
           /\ ConfigOnDisk.db_backend = args.backend
           /\ home.app_toml.data.minimum_gas_prices = MIN_GAS_PRICE
           /\ port_offset_of(args.port_offset_flag) > 0
                 => ConfigOnDisk.rpc_laddr \notin
                       {out.config_toml.data.rpc_laddr : out \in InitOutputs}

(***************************************************************************)
(* C18 - C20: the launch                                                   *)
(***************************************************************************)
ResetsIn(t) == {k \in 1..Len(t) : t[k].op = "unsafe_reset_all"}

PathFinished ==
    \/ path = "init" /\ InTrace("write_app", TRUE)
    \/ path = "backend" /\ InTrace("backend_load", TRUE)

\* C18: unsafe-reset-all is run if and only if state-sync was requested for
\* this run and the validator state marker is absent at that point; it runs
\* at most once per run, after the chosen path has finished and before the
\* start command; when it fails the run ends with exit code 1 and the node
\* is not started.
C18_Step ==
    /\ (pc = "pre_launch" /\ exit_code' # 130)
           => /\ PathFinished
              /\ ("unsafe_reset_all" \in NewOps)
                    <=> (args.state_sync_enable /\ ~home.marker)
              /\ InTrace("unsafe_reset_all", FALSE)'
                    => pc' = "exited" /\ exit_code' = 1
              /\ pc' # "exited" => pc' = "start"
    /\ pc # "pre_launch" => "unsafe_reset_all" \notin NewOps
    /\ Cardinality(ResetsIn(trace')) <= 1
    /\ "start" \in NewOps
           => /\ pc = "start"
              /\ ~InTrace("unsafe_reset_all", FALSE)
              /\ args.state_sync_enable => home.marker

C18_ResetBeforeStateSyncStart == [][C18_Step]_vars

C18_Witness ==
    /\ InTrace("unsafe_reset_all", TRUE)
    /\ InTrace("start", TRUE)
    /\ args.state_sync_enable
    /\ pc = "node_running"

\* number of elements of the start command with option opt
Options(cmd, opt) == {k \in 1..Len(cmd) : cmd[k].opt = opt}

====
